---------------------------- MODULE Spec2Model ----------------------------
(***************************************************************************)
(* A model of brainstorm/layers/python_layers.py: the layer classes        *)
(* (LayerBase, InputLayer, NoOpLayer, FeedForwardLayer), their             *)
(* construction, handler binding, forward and backward passes over         *)
(* caller-owned buffers, and the registry lookup                           *)
(* get_layer_class_from_typename.                                          *)
(*                                                                         *)
(* Python values are tagged records, so that None, integers, handler       *)
(* objects, bound methods and the lambda of the activation table are       *)
(* distinct values that can be compared with one another.  Buffers hold    *)
(* integers; a three-axis buffer is a tuple of tuples of tuples.           *)
(***************************************************************************)
EXTENDS Integers, Sequences, FiniteSets, TLC

\* ------------------------------------------------------------------ bounds

\* size and in_size range over None and 0..MaxSize.
MaxSize == 2
\* A kwargs mapping holds at most MaxKwargs keys.
MaxKwargs == 2
\* The (time steps, batch rows) of the buffers the caller allocates: the single
\* row of the unit tests, and one where folding the two axes is not trivial.
BufferShapes == {<<1, 1>>, <<2, 2>>}
\* Buffer contents are generated from a seed.
Seeds == {0, 1}
\* At most MaxCalls successful backward passes share one set of buffers.
MaxCalls == 2

\* ----------------------------------------------------------- Python values

PyNone == [type |-> "NoneType"]

PyInt(n) == [type |-> "int", val |-> n]

\* A numeric-backend object; every handler supplies the whole handler contract.
Handler(id) == [type |-> "Handler", id |-> id]

Handlers == {Handler("H1"), Handler("H2")}

\* self.handler.<name>: a method bound to the handler it was read from.
BoundMethod(h, name) == [type |-> "method", self |-> h, name |-> name]

\* lambda x: x
LambdaIdentity == [type |-> "function", name |-> "lambda x: x", nargs |-> 1]

\* Python truthiness of None and of an integer.
Truthy(v) == ~(v = PyNone \/ v = PyInt(0))

\* Exceptions.
AssertionError(msg, names) ==
    [type |-> "AssertionError", msg |-> msg, names |-> names]

KeyError(key) == [type |-> "KeyError", msg |-> "key", names |-> <<key>>]

TypeError(msg, names) == [type |-> "TypeError", msg |-> msg, names |-> names]

AttributeError(attr) ==
    [type |-> "AttributeError", msg |-> "'NoneType' object has no attribute",
     names |-> <<attr>>]

\* The outcome of a call: the value it returns, or the exception it raises.
Returns(v) == [status |-> "ok", error |-> PyNone, value |-> v]

Raises(e) == [status |-> "error", error |-> e, value |-> PyNone]

\* ------------------------------------------------------------ kwargs (dict)

\* A dict is the sequence of its <<key, value>> items in iteration order.
DictKeys(d) == [i \in 1..Len(d) |-> d[i][1]]

HasKey(d, key) == \E i \in 1..Len(d) : d[i][1] = key

\* d.get(key, default)
DictGet(d, key, default) ==
    IF HasKey(d, key)
    THEN d[CHOOSE i \in 1..Len(d) : d[i][1] = key][2]
    ELSE default

\* ------------------------------------------------------------ class table

\* The class statements of the module: each class and its base.
LayerClasses ==
    { [name |-> "LayerBase",        base |-> "object"],
      [name |-> "InputLayer",       base |-> "LayerBase"],
      [name |-> "NoOpLayer",        base |-> "LayerBase"],
      [name |-> "FeedForwardLayer", base |-> "LayerBase"] }

ClassNamed(n) == CHOOSE c \in LayerClasses : c.name = n

\* brainstorm.utils.get_inheritors(cls): every direct and transitive subclass
\* of cls, cls itself excluded.
RECURSIVE Descends(_, _, _)
Descends(c, base, fuel) ==
    /\ fuel > 0
    /\ \/ c.base = base.name
       \/ \E p \in LayerClasses :
            c.base = p.name /\ Descends(p, base, fuel - 1)

get_inheritors(cls) ==
    {c \in LayerClasses : Descends(c, cls, Cardinality(LayerClasses))}


\* ------------------------------------------------------------- LayerBase

\* LayerBase.validate_kwargs: assert not kwargs.
LayerBase_validate_kwargs(kwargs) ==
    IF Len(kwargs) = 0
    THEN Returns(PyNone)
    ELSE Raises(AssertionError("Unexpected kwargs", DictKeys(kwargs)))

\* Mutant of FeedForwardLayer.validate_kwargs: the loop returns after its
\* first key.
FeedForwardLayer_validate_kwargs_first_key(kwargs) ==
    IF Len(kwargs) = 0 \/ kwargs[1][1] \in {"act_func"}
    THEN Returns(PyNone)
    ELSE Raises(AssertionError("Unexpected kwarg for FeedForwardLayer",
                               <<kwargs[1][1]>>))

\* FeedForwardLayer.validate_kwargs: the first key, in iteration order, that is
\* not 'act_func' fails the assertion; the values are not looked at.
FeedForwardLayer_validate_kwargs(kwargs) ==
    LET bad == {i \in 1..Len(kwargs) : kwargs[i][1] \notin {"act_func"}}
    IN  IF bad = {}
        THEN Returns(PyNone)
        ELSE LET first == CHOOSE i \in bad : \A j \in bad : i <= j
             IN  Raises(AssertionError("Unexpected kwarg for FeedForwardLayer",
                                       <<kwargs[first][1]>>))

\* self.validate_kwargs(kwargs), resolved on the class of self.
validate_kwargs(cls, kwargs) ==
    IF cls = "FeedForwardLayer"
    THEN FeedForwardLayer_validate_kwargs(kwargs)
    ELSE LayerBase_validate_kwargs(kwargs)

\* LayerBase._get_output_size
get_output_size(size, in_size, kwargs) ==
    IF size # PyNone THEN size ELSE in_size

\* LayerBase.__init__
LayerBase_init(cls, size, in_size, sink_layers, source_layers, kwargs) ==
    LET checked == validate_kwargs(cls, kwargs)
    IN  IF checked.status = "error"
        THEN checked
        ELSE Returns([cls           |-> cls,
                      in_size       |-> in_size,
                      kwargs        |-> kwargs,
                      out_size      |-> get_output_size(size, in_size, kwargs),
                      sink_layers   |-> sink_layers,
                      source_layers |-> source_layers,
                      handler       |-> PyNone])

\* Mutant of InputLayer.__init__: the assertion tests in_size is None.
InputLayer_init_is_none(size, in_size, sink_layers, source_layers, kwargs) ==
    LET base == LayerBase_init("InputLayer", size, in_size, sink_layers,
                               source_layers, kwargs)
    IN  IF base.status = "error" THEN base
        ELSE IF in_size # PyNone
        THEN Raises(AssertionError("InputLayer cannot have an in_size", <<>>))
        ELSE base

\* InputLayer.__init__
InputLayer_init(size, in_size, sink_layers, source_layers, kwargs) ==
    LET base == LayerBase_init("InputLayer", size, in_size, sink_layers,
                               source_layers, kwargs)
    IN  IF base.status = "error" THEN base
        ELSE IF Truthy(in_size)
        THEN Raises(AssertionError("InputLayer cannot have an in_size", <<>>))
        ELSE base

\* NoOpLayer.__init__
NoOpLayer_init(size, in_size, sink_layers, source_layers, kwargs) ==
    LET base == LayerBase_init("NoOpLayer", size, in_size, sink_layers,
                               source_layers, kwargs)
    IN  IF base.status = "error" THEN base
        ELSE IF size # in_size
        THEN Raises(AssertionError(
                 "For NoOpLayer in and out size must be equal", <<>>))
        ELSE base

\* FeedForwardLayer.__init__
FeedForwardLayer_init(size, in_size, sink_layers, source_layers, kwargs) ==
    LET base == LayerBase_init("FeedForwardLayer", size, in_size, sink_layers,
                               source_layers, kwargs)
    IN  IF base.status = "error" THEN base
        ELSE Returns(base.value @@
                     [act_func |-> PyNone, act_func_deriv |-> PyNone])

\* cls(size, in_size, sink_layers, source_layers, kwargs)
New(cls, size, in_size, sink_layers, source_layers, kwargs) ==
    CASE cls = "InputLayer" ->
           InputLayer_init(size, in_size, sink_layers, source_layers, kwargs)
      [] cls = "NoOpLayer" ->
           NoOpLayer_init(size, in_size, sink_layers, source_layers, kwargs)
      [] cls = "FeedForwardLayer" ->
           FeedForwardLayer_init(size, in_size, sink_layers, source_layers,
                                 kwargs)
      [] OTHER ->
           LayerBase_init(cls, size, in_size, sink_layers, source_layers,
                          kwargs)

\* LayerBase.get_parameter_structure and FeedForwardLayer's override.
get_parameter_structure(self) ==
    IF self.cls = "FeedForwardLayer"
    THEN << <<"W", <<self.in_size, self.out_size>> >>, <<"b", self.out_size>> >>
    ELSE <<>>

\* --------------------------------------------------------------- registry

\* Mutant of get_layer_class_from_typename: the loop falls through without
\* raising, and the function returns None.
get_layer_class_from_typename_no_raise(typename) ==
    LET layer_classes == get_inheritors(ClassNamed("LayerBase"))
        matches == {layer_class \in layer_classes : typename = layer_class.name}
    IN  IF matches # {}
        THEN Returns(CHOOSE layer_class \in matches : TRUE)
        ELSE Returns(PyNone)

\* get_layer_class_from_typename: the class among the inheritors of LayerBase
\* whose __name__ is typename, or TypeError when the loop finds none.
get_layer_class_from_typename(typename) ==
    LET layer_classes == get_inheritors(ClassNamed("LayerBase"))
        matches == {layer_class \in layer_classes : typename = layer_class.name}
    IN  IF matches # {}
        THEN Returns(CHOOSE layer_class \in matches : TRUE)
        ELSE Raises(TypeError("Layer-type unknown", <<typename>>))


\* ------------------------------------------------------ buffers and shapes

\* A matrix is a tuple of rows; a three-axis buffer is a tuple (time) of tuples
\* (batch) of feature rows.  TupleOf(f, n) is the tuple <<f[1], ..., f[n]>>.
RECURSIVE TupleOf(_, _)
TupleOf(f, n) == IF n = 0 THEN <<>> ELSE Append(TupleOf(f, n - 1), f[n])

\* The rows x cols matrix and the t x b x f buffer with the entries of m.
Tuple2(m, rows, cols) == TupleOf([r \in 1..rows |-> TupleOf(m[r], cols)], rows)

Tuple3(m, t, b, f) == TupleOf([i \in 1..t |-> Tuple2(m[i], b, f)], t)


RECURSIVE SeqSum(_)
SeqSum(s) == IF Len(s) = 0 THEN 0 ELSE s[1] + SeqSum(Tail(s))

Rows(m) == Len(m)

Cols(m) == Len(m[1])

\* buffer.shape of a three-axis buffer: (t, b, f).
Shape3(buf) == <<Len(buf), Len(buf[1]), Len(buf[1][1])>>

\* The k-th element (from 0) of a three-axis buffer in row-major order.
Ravel3(buf, k) ==
    LET B == Len(buf[1])
        F == Len(buf[1][1])
    IN  buf[(k \div (B * F)) + 1][((k \div F) % B) + 1][(k % F) + 1]

\* m.T
Transpose(m) ==
    Tuple2([c \in 1..Cols(m) |-> [r \in 1..Rows(m) |-> m[r][c]]],
           Cols(m), Rows(m))

\* The matrix product A . B.
MatMul(A, B) ==
    Tuple2([r \in 1..Rows(A) |->
               [c \in 1..Cols(B) |->
                   SeqSum([k \in 1..Cols(A) |-> A[r][k] * B[k][c]])]],
           Rows(A), Cols(B))

MatAdd(A, B) ==
    Tuple2([r \in 1..Rows(A) |-> [c \in 1..Cols(A) |-> A[r][c] + B[r][c]]],
           Rows(A), Cols(A))

\* ------------------------------------------------- handler (numeric backend)

\* H.reshape(buffer, (rows, cols)): the row-major view of a three-axis buffer
\* as a matrix.
H_reshape(buf, rows, cols) ==
    Tuple2([r \in 1..rows |->
               [c \in 1..cols |-> Ravel3(buf, (r - 1) * cols + (c - 1))]],
           rows, cols)

\* What a write to the view flat = H.reshape(buf, ...) leaves in the buffer of
\* shape (t, b, .) it is a view of.
WriteThrough(flat, t, b) ==
    Tuple2([i \in 1..t |-> [j \in 1..b |-> flat[(i - 1) * b + j]]], t, b)

\* H.zeros(shape)
H_zeros(shape) ==
    Tuple3([i \in 1..shape[1] |->
               [j \in 1..shape[2] |-> [k \in 1..shape[3] |-> 0]]],
           shape[1], shape[2], shape[3])

\* H.dot(A, B, out): out is overwritten with A . B.
H_dot(A, B, out) == MatMul(A, B)

\* H.dot_add(A, B, out): A . B is added to out.
H_dot_add(A, B, out) == MatAdd(out, MatMul(A, B))

\* H.add_mv(m, v, out): out is m with the vector v added to every row.
H_add_mv(m, v, out) ==
    Tuple2([r \in 1..Rows(m) |-> [c \in 1..Cols(m) |-> m[r][c] + v[c]]],
           Rows(m), Cols(m))

\* H.sum(m, axis=0, out=out): out is overwritten with the column sums of m.
H_sum_axis0(m, out) ==
    TupleOf([c \in 1..Cols(m) |-> SeqSum([r \in 1..Rows(m) |-> m[r][c]])],
            Cols(m))

\* The handler's activation functions on integer buffers: rel is exact,
\* sigmoid and tanh are rounded to the nearest integer.
ActValue(name, x) ==
    CASE name = "rel"     -> IF x > 0 THEN x ELSE 0
      [] name = "tanh"    -> IF x > 0 THEN 1 ELSE IF x < 0 THEN -1 ELSE 0
      [] name = "sigmoid" -> IF x > 0 THEN 1 ELSE 0

\* The handler's activation derivatives, deriv(x, y, dy, dx), elementwise:
\* dx = dy * (y > 0), dy * (1 - y * y), dy * y * (1 - y).
ActDerivValue(name, y, dy) ==
    CASE name = "rel_deriv"     -> IF y > 0 THEN dy ELSE 0
      [] name = "tanh_deriv"    -> dy * (1 - y * y)
      [] name = "sigmoid_deriv" -> dy * y * (1 - y)

\* method(x, y) of a handler's activation method: y is overwritten, elementwise.
H_act(method, x) ==
    Tuple2([r \in 1..Rows(x) |->
               [c \in 1..Cols(x) |-> ActValue(method.name, x[r][c])]],
           Rows(x), Cols(x))

\* method(None, y, dy, dx) of a handler's derivative method on three-axis
\* buffers: dx is overwritten, elementwise.
H_act_deriv(method, y, dy) ==
    Tuple3([i \in 1..Len(y) |-> [j \in 1..Len(y[1]) |->
               [k \in 1..Len(y[1][1]) |->
                   ActDerivValue(method.name, y[i][j][k], dy[i][j][k])]]],
           Len(y), Len(y[1]), Len(y[1][1]))

\* Calling the value f with nargs positional arguments: None when the call goes
\* through, the TypeError it raises otherwise.
CallError(f, nargs) ==
    CASE f.type = "method" -> PyNone
      [] f.type = "function" ->
           IF f.nargs = nargs THEN PyNone
           ELSE TypeError("<lambda>() takes exactly 1 argument", <<>>)
      [] OTHER -> TypeError("object is not callable", <<f.type>>)


\* ------------------------------------------------------------ set_handler

\* LayerBase.set_handler
LayerBase_set_handler(self, new_handler) ==
    [status |-> "ok", error |-> PyNone,
     self |-> [self EXCEPT !.handler = new_handler]]

\* The dict activation_functions that FeedForwardLayer.set_handler builds from
\* self.handler.
activation_functions(handler) ==
    ("sigmoid" :> <<BoundMethod(handler, "sigmoid"),
                    BoundMethod(handler, "sigmoid_deriv")>>) @@
    ("tanh"    :> <<BoundMethod(handler, "tanh"),
                    BoundMethod(handler, "tanh_deriv")>>) @@
    ("linear"  :> <<LambdaIdentity, PyInt(1)>>) @@
    ("rel"     :> <<BoundMethod(handler, "rel"),
                    BoundMethod(handler, "rel_deriv")>>)

\* FeedForwardLayer.set_handler: the handler is assigned first; the lookup of
\* the activation name in the table raises KeyError for a name it lacks.
FeedForwardLayer_set_handler(self, new_handler) ==
    LET bound == [self EXCEPT !.handler = new_handler]
        table == activation_functions(bound.handler)
        key   == DictGet(bound.kwargs, "act_func", "tanh")
    IN  IF key \in DOMAIN table
        THEN [status |-> "ok", error |-> PyNone,
              self |-> [bound EXCEPT !.act_func = table[key][1],
                                     !.act_func_deriv = table[key][2]]]
        ELSE [status |-> "error", error |-> KeyError(key), self |-> bound]

\* self.set_handler(new_handler), resolved on the class of self.
set_handler(self, new_handler) ==
    IF self.cls = "FeedForwardLayer"
    THEN FeedForwardLayer_set_handler(self, new_handler)
    ELSE LayerBase_set_handler(self, new_handler)

\* ------------------------------------------------------------ forward_pass

\* Mutant of LayerBase.forward_pass: the layer copies its input into its
\* output.
LayerBase_forward_pass_copying(self, params, input, output) ==
    [status |-> "ok", error |-> PyNone, output_buffer |-> input]

\* LayerBase.forward_pass: pass.
LayerBase_forward_pass(self, params, input, output) ==
    [status |-> "ok", error |-> PyNone, output_buffer |-> output]

\* FeedForwardLayer.forward_pass.  The attribute reshape is read from
\* self.handler before anything is written; dot and add_mv write the output
\* buffer through its flat view before self.act_func is called.
FeedForwardLayer_forward_pass(self, params, input, output) ==
    LET H  == self.handler
        WX == params.W
        W_bias == params.b
        t  == Shape3(input)[1]
        b  == Shape3(input)[2]
        f  == Shape3(input)[3]
    IN  IF H = PyNone
        THEN [status |-> "error", error |-> AttributeError("reshape"),
              output_buffer |-> output]
        ELSE
        LET flat_input   == H_reshape(input, t * b, f)
            flat_output0 == H_reshape(output, t * b, self.out_size.val)
            flat_output1 == H_dot(flat_input, WX, flat_output0)
            flat_output2 == H_add_mv(flat_output1, W_bias, flat_output1)
            failed       == CallError(self.act_func, 2)
        IN  IF failed # PyNone
            THEN [status |-> "error", error |-> failed,
                  output_buffer |-> WriteThrough(flat_output2, t, b)]
            ELSE [status |-> "ok", error |-> PyNone,
                  output_buffer |->
                      WriteThrough(H_act(self.act_func, flat_output2), t, b)]

\* self.forward_pass(parameters, input_buffer, output_buffer)
forward_pass(self, params, input, output) ==
    IF self.cls = "FeedForwardLayer"
    THEN FeedForwardLayer_forward_pass(self, params, input, output)
    ELSE LayerBase_forward_pass(self, params, input, output)

\* ----------------------------------------------------------- backward_pass

\* LayerBase.backward_pass: pass.
LayerBase_backward_pass(self, params, input, output, in_delta, out_delta, gradient) ==
    [status |-> "ok", error |-> PyNone,
     in_delta_buffer |-> in_delta, gradient_buffer |-> gradient]

\* Mutant of FeedForwardLayer.backward_pass: in_delta_buffer is written with
\* dot, not dot_add.
FeedForwardLayer_backward_pass_dot(self, params, input, output, in_delta, out_delta, gradient) ==
    LET H  == self.handler
        WX == params.W
        t  == Shape3(input)[1]
        b  == Shape3(input)[2]
        f  == Shape3(input)[3]
    IN  IF H = PyNone
        THEN [status |-> "error", error |-> AttributeError("zeros"),
              in_delta_buffer |-> in_delta, gradient_buffer |-> gradient]
        ELSE
        LET failed == CallError(self.act_func_deriv, 4)
        IN  IF failed # PyNone
            THEN [status |-> "error", error |-> failed,
                  in_delta_buffer |-> in_delta, gradient_buffer |-> gradient]
            ELSE
            LET dZ == H_act_deriv(self.act_func_deriv, output, out_delta)
                flat_input == H_reshape(input, t * b, f)
                flat_dZ    == H_reshape(dZ, t * b, self.out_size.val)
                flat_in_delta_buffer == H_reshape(in_delta, t * b, f)
            IN  [status |-> "ok", error |-> PyNone,
                 in_delta_buffer |->
                     WriteThrough(H_dot(flat_dZ, Transpose(WX),
                                        flat_in_delta_buffer), t, b),
                 gradient_buffer |->
                     [W |-> H_dot(Transpose(flat_input), flat_dZ, gradient.W),
                      b |-> H_sum_axis0(flat_dZ, gradient.b)]]

\* FeedForwardLayer.backward_pass.  The attribute zeros is read from
\* self.handler first; self.act_func_deriv is called before any caller-owned
\* buffer is written.
FeedForwardLayer_backward_pass(self, params, input, output, in_delta, out_delta, gradient) ==
    LET H  == self.handler
        WX == params.W
        t  == Shape3(input)[1]
        b  == Shape3(input)[2]
        f  == Shape3(input)[3]
    IN  IF H = PyNone
        THEN [status |-> "error", error |-> AttributeError("zeros"),
              in_delta_buffer |-> in_delta, gradient_buffer |-> gradient]
        ELSE
        LET failed == CallError(self.act_func_deriv, 4)
        IN  IF failed # PyNone
            THEN [status |-> "error", error |-> failed,
                  in_delta_buffer |-> in_delta, gradient_buffer |-> gradient]
            ELSE
            LET dZ == H_act_deriv(self.act_func_deriv, output, out_delta)
                flat_input == H_reshape(input, t * b, f)
                flat_dZ    == H_reshape(dZ, t * b, self.out_size.val)
                flat_in_delta_buffer == H_reshape(in_delta, t * b, f)
            IN  [status |-> "ok", error |-> PyNone,
                 in_delta_buffer |->
                     WriteThrough(H_dot_add(flat_dZ, Transpose(WX),
                                            flat_in_delta_buffer), t, b),
                 gradient_buffer |->
                     [W |-> H_dot(Transpose(flat_input), flat_dZ, gradient.W),
                      b |-> H_sum_axis0(flat_dZ, gradient.b)]]

\* self.backward_pass(parameters, input_buffer, output_buffer, in_delta_buffer,
\* out_delta_buffer, gradient_buffer)
backward_pass(self, params, input, output, in_delta, out_delta, gradient) ==
    IF self.cls = "FeedForwardLayer"
    THEN FeedForwardLayer_backward_pass(self, params, input, output, in_delta,
                                        out_delta, gradient)
    ELSE LayerBase_backward_pass(self, params, input, output, in_delta,
                                 out_delta, gradient)


\* ------------------------------------------------------------------ inputs

\* The values given for size and in_size.
Sizes == {PyNone} \cup {PyInt(n) : n \in 0..MaxSize}

\* The names the activation table knows, and one it does not.
ActNames == {"sigmoid", "tanh", "linear", "rel"}

ActValues == ActNames \cup {"softmax"}

KwargItems ==
    {<<"act_func", v>> : v \in ActValues} \cup
    {<<"dropout", "0.5">>, <<"bias", "off">>}

\* The kwargs mappings: up to MaxKwargs items with distinct keys.
KwargsSet ==
    {d \in UNION {[1..n -> KwargItems] : n \in 0..MaxKwargs} :
        \A i, j \in 1..Len(d) : d[i][1] = d[j][1] => i = j}

ConcreteNames == {"InputLayer", "NoOpLayer", "FeedForwardLayer"}

\* The type names looked up in the registry.
TypeNames == ConcreteNames \cup {"LayerBase", "inputlayer", "object", "LstmLayer"}

\* The contents the caller puts into a buffer: entries in -2..2 that vary with
\* the position, the buffer (salt) and the seed.
Entry(seed, salt, i, j, k) ==
    ((seed * (salt + 1) + salt * salt + i * (salt + 1) + 2 * j + 3 * k
        + i * j * k) % 5) - 2

Fill3(seed, salt, t, b, f) ==
    Tuple3([i \in 1..t |-> [j \in 1..b |->
               [k \in 1..f |-> Entry(seed, salt, i, j, k)]]], t, b, f)

FillMatrix(seed, salt, rows, cols) ==
    Tuple2([r \in 1..rows |->
               [c \in 1..cols |-> Entry(seed, salt, r, c, r + c)]], rows, cols)

FillVector(seed, salt, n) ==
    TupleOf([c \in 1..n |-> Entry(seed, salt, c, c, 1)], n)

\* The feature count of a buffer declared with the given size.
Features(size) == IF size = PyNone THEN 0 ELSE size.val

\* One buffer per (name, shape) of a parameter structure.
FillParameters(structure, seed, salt) ==
    IF structure = <<>>
    THEN <<>>
    ELSE [W |-> FillMatrix(seed, salt, structure[1][2][1].val,
                           structure[1][2][2].val),
          b |-> FillVector(seed, salt + 1, structure[2][2].val)]

\* ------------------------------------------------------------------- state

VARIABLES
    layer,             \* the layer object, None before a construction succeeds
    result,            \* the last step: the call, its arguments, its outcome
    parameters,        \* the caller-owned buffers, None before they are allocated
    input_buffer,
    output_buffer,
    in_delta_buffer,
    out_delta_buffer,
    gradient_buffer,
    in_delta_initial,  \* in_delta_buffer as the caller allocated it
    backward_calls     \* the arguments of each backward pass that returned

buffers == <<parameters, input_buffer, output_buffer, in_delta_buffer,
             out_delta_buffer, gradient_buffer>>

history == <<in_delta_initial, backward_calls>>

vars == <<layer, result, buffers, history>>

Step(op, args, status, error, value) ==
    [op |-> op, args |-> args, status |-> status, error |-> error,
     value |-> value]

Init ==
    /\ layer = PyNone
    /\ result = Step("start", <<>>, "ok", PyNone, PyNone)
    /\ parameters = PyNone
    /\ input_buffer = PyNone
    /\ output_buffer = PyNone
    /\ in_delta_buffer = PyNone
    /\ out_delta_buffer = PyNone
    /\ gradient_buffer = PyNone
    /\ in_delta_initial = PyNone
    /\ backward_calls = <<>>

\* The graph builder looks a type name up in the registry, first of all.
Lookup(typename) ==
    /\ result.op = "start"
    /\ LET out == get_layer_class_from_typename(typename)
       IN  result' = Step("get_layer_class_from_typename",
                          [typename |-> typename],
                          out.status, out.error, out.value)
    /\ UNCHANGED <<layer, buffers, history>>

\* The graph builder constructs the layer, once, from a class it names or from
\* the class the registry returned; a failed construction leaves no layer.
CanConstruct(cls) ==
    \/ result.op = "start"
    \/ /\ result.op = "get_layer_class_from_typename"
       /\ result.status = "ok"
       /\ result.value.name = cls

Construct(cls, size, in_size, kwargs) ==
    /\ LET out == New(cls, size, in_size, <<>>, <<>>, kwargs)
       IN  /\ layer' = out.value
           /\ result' = Step("construct",
                             [cls |-> cls, size |-> size, in_size |-> in_size,
                              kwargs |-> kwargs],
                             out.status, out.error, PyNone)
    /\ UNCHANGED <<buffers, history>>

\* layer.set_handler(new_handler): the builder binds, and may rebind, the
\* handler before the training steps begin.
SetHandler(new_handler) ==
    /\ layer # PyNone
    /\ parameters = PyNone
    /\ LET out == set_handler(layer, new_handler)
       IN  /\ layer' = out.self
           /\ result' = Step("set_handler", [new_handler |-> new_handler],
                             out.status, out.error, PyNone)
    /\ UNCHANGED <<buffers, history>>

\* The caller allocates the buffers in the declared shapes and fills them.
Allocate(t, b, seed) ==
    /\ layer # PyNone
    /\ parameters = PyNone
    /\ layer.out_size # PyNone /\ layer.out_size.val >= 1
    /\ layer.cls = "FeedForwardLayer" =>
           layer.in_size # PyNone /\ layer.in_size.val >= 1
    /\ LET fin  == Features(layer.in_size)
           fout == Features(layer.out_size)
           structure == get_parameter_structure(layer)
       IN  /\ parameters' = FillParameters(structure, seed, 1)
           /\ input_buffer' = Fill3(seed, 3, t, b, fin)
           /\ output_buffer' = Fill3(seed, 4, t, b, fout)
           /\ in_delta_buffer' = Fill3(seed, 5, t, b, fin)
           /\ in_delta_initial' = Fill3(seed, 5, t, b, fin)
           /\ out_delta_buffer' = Fill3(seed, 6, t, b, fout)
           /\ gradient_buffer' = FillParameters(structure, seed, 7)
    /\ result' = Step("allocate", [t |-> t, b |-> b, seed |-> seed],
                      "ok", PyNone, PyNone)
    /\ UNCHANGED <<layer, backward_calls>>

\* The caller (the layer downstream) writes the incoming error signal.
WriteOutDelta(seed) ==
    /\ parameters # PyNone
    /\ LET shape == Shape3(output_buffer)
       IN  out_delta_buffer' = Fill3(seed, 6, shape[1], shape[2], shape[3])
    /\ result' = Step("write_out_delta", [seed |-> seed], "ok", PyNone, PyNone)
    /\ UNCHANGED <<layer, parameters, input_buffer, output_buffer,
                   in_delta_buffer, gradient_buffer, history>>

\* layer.forward_pass(parameters, input_buffer, output_buffer)
Forward ==
    /\ parameters # PyNone
    /\ LET out == forward_pass(layer, parameters, input_buffer, output_buffer)
       IN  /\ output_buffer' = out.output_buffer
           /\ result' = Step("forward_pass", <<>>, out.status, out.error, PyNone)
    /\ UNCHANGED <<layer, parameters, input_buffer, in_delta_buffer,
                   out_delta_buffer, gradient_buffer, history>>

\* layer.backward_pass(parameters, input_buffer, output_buffer,
\*                     in_delta_buffer, out_delta_buffer, gradient_buffer)
Backward ==
    /\ parameters # PyNone
    /\ Len(backward_calls) < MaxCalls
    /\ LET out == backward_pass(layer, parameters, input_buffer, output_buffer,
                                in_delta_buffer, out_delta_buffer,
                                gradient_buffer)
       IN  /\ in_delta_buffer' = out.in_delta_buffer
           /\ gradient_buffer' = out.gradient_buffer
           /\ result' = Step("backward_pass", <<>>, out.status, out.error, PyNone)
           /\ backward_calls' =
                  IF out.status = "ok"
                  THEN Append(backward_calls,
                              [output_buffer |-> output_buffer,
                               out_delta_buffer |-> out_delta_buffer])
                  ELSE backward_calls
    /\ UNCHANGED <<layer, parameters, input_buffer, output_buffer,
                   out_delta_buffer, in_delta_initial>>

Next ==
    \/ \E typename \in TypeNames : Lookup(typename)
    \/ \E cls \in {c \in ConcreteNames : CanConstruct(c)} :
          \E size \in Sizes, in_size \in Sizes, kwargs \in KwargsSet :
             Construct(cls, size, in_size, kwargs)
    \/ \E new_handler \in Handlers : SetHandler(new_handler)
    \/ \E shape \in BufferShapes, seed \in Seeds :
          Allocate(shape[1], shape[2], seed)
    \/ \E seed \in Seeds : WriteOutDelta(seed)
    \/ Forward
    \/ Backward

Spec == Init /\ [][Next]_vars


\* ------------------------------------------------- what the claims speak of

IsFeedForward == layer # PyNone /\ layer.cls = "FeedForwardLayer"

\* The configured activation name of the layer.
ActName == DictGet(layer.kwargs, "act_func", "tanh")

\* input . W + b, entry by entry on the three-axis buffers: the bias is added
\* to every (time, batch) row.
Affine(input, params) ==
    Tuple3([i \in 1..Len(input) |-> [j \in 1..Len(input[1]) |->
               [c \in 1..Len(params.b) |->
                   SeqSum([k \in 1..Len(params.W) |->
                              input[i][j][k] * params.W[k][c]])
                   + params.b[c]]]],
           Len(input), Len(input[1]), Len(params.b))

\* dZ . W^T on three-axis buffers.
InDeltaContribution(dZ, W) ==
    Tuple3([i \in 1..Len(dZ) |-> [j \in 1..Len(dZ[1]) |->
               [k \in 1..Len(W) |->
                   SeqSum([c \in 1..Len(W[1]) |-> dZ[i][j][c] * W[k][c]])]]],
           Len(dZ), Len(dZ[1]), Len(W))

\* input_flat^T . dZ: the sum over every (time, batch) row.
WeightGradient(input, dZ) ==
    Tuple2([k \in 1..Len(input[1][1]) |-> [c \in 1..Len(dZ[1][1]) |->
               SeqSum([i \in 1..Len(input) |->
                   SeqSum([j \in 1..Len(input[1]) |->
                              input[i][j][k] * dZ[i][j][c]])])]],
           Len(input[1][1]), Len(dZ[1][1]))

\* The column sum of dZ over every (time, batch) row.
BiasGradient(dZ) ==
    TupleOf([c \in 1..Len(dZ[1][1]) |->
                SeqSum([i \in 1..Len(dZ) |->
                    SeqSum([j \in 1..Len(dZ[1]) |-> dZ[i][j][c]])])],
            Len(dZ[1][1]))

Add3(x, y) ==
    Tuple3([i \in 1..Len(x) |-> [j \in 1..Len(x[1]) |->
               [k \in 1..Len(x[1][1]) |-> x[i][j][k] + y[i][j][k]]]],
           Len(x), Len(x[1]), Len(x[1][1]))

IsZero3(x) ==
    \A i \in 1..Len(x) : \A j \in 1..Len(x[i]) : \A k \in 1..Len(x[i][j]) :
        x[i][j][k] = 0

\* The dZ of one backward pass: out_delta itself for the linear activation,
\* the handler's derivative of the named activation otherwise.
ExpectedDZ(act, call) ==
    IF act = "linear"
    THEN call.out_delta_buffer
    ELSE LET y    == call.output_buffer
             dy   == call.out_delta_buffer
             name == CASE act = "sigmoid" -> "sigmoid_deriv"
                       [] act = "tanh"    -> "tanh_deriv"
                       [] act = "rel"     -> "rel_deriv"
         IN  Tuple3([i \in 1..Len(y) |-> [j \in 1..Len(y[1]) |->
                        [k \in 1..Len(y[1][1]) |->
                            ActDerivValue(name, y[i][j][k], dy[i][j][k])]]],
                    Len(y), Len(y[1]), Len(y[1][1]))

\* in_delta_initial plus the contribution of each of the first n calls.
RECURSIVE AccumulatedInDelta(_, _)
AccumulatedInDelta(act, n) ==
    IF n = 0
    THEN in_delta_initial
    ELSE Add3(AccumulatedInDelta(act, n - 1),
              InDeltaContribution(ExpectedDZ(act, backward_calls[n]),
                                  parameters.W))

\* ------------------------------------------------------------------ claims

\* C1 (as claimed; the code fails it): after forward_pass on a bound
\* FeedForwardLayer whose act_func is 'linear', the call has returned without
\* error and output_buffer is input . W + b.
C1_LinearForwardIsAffine ==
    (result.op = "forward_pass" /\ IsFeedForward /\ layer.handler # PyNone
        /\ ActName = "linear")
    => /\ result.status = "ok"
       /\ output_buffer = Affine(input_buffer, parameters)

\* C2 (as claimed; the code fails it): after backward_pass on a bound
\* FeedForwardLayer whose act_func is 'linear', the call has returned without
\* error with dZ = out_delta_buffer: in_delta_buffer has grown by
\* out_delta . W^T, gradient_buffer['W'] is input_flat^T . out_delta and
\* gradient_buffer['b'] is the column sum of out_delta.
C2_LinearBackwardUsesOutDelta ==
    (result.op = "backward_pass" /\ IsFeedForward /\ layer.handler # PyNone
        /\ ActName = "linear")
    => /\ result.status = "ok"
       /\ Len(backward_calls) >= 1
       /\ in_delta_buffer = AccumulatedInDelta("linear", Len(backward_calls))
       /\ gradient_buffer =
              [W |-> WeightGradient(input_buffer, out_delta_buffer),
               b |-> BiasGradient(out_delta_buffer)]

\* C3: for a bound FeedForwardLayer with a handler-supplied activation, after
\* n >= 1 backward passes on the same buffers in_delta_buffer is its initial
\* value plus the n contributions dZ_i . W^T, and gradient_buffer holds what
\* the last call alone computes.
C3_InDeltaAccumulatesGradientOverwritten ==
    (IsFeedForward /\ layer.handler # PyNone
        /\ ActName \in {"sigmoid", "tanh", "rel"}
        /\ Len(backward_calls) >= 1)
    => LET n    == Len(backward_calls)
           last == ExpectedDZ(ActName, backward_calls[n])
       IN  /\ in_delta_buffer = AccumulatedInDelta(ActName, n)
           /\ gradient_buffer = [W |-> WeightGradient(input_buffer, last),
                                 b |-> BiasGradient(last)]

\* C3 witness: two backward passes with different error signals, each with a
\* contribution that is not zero, on buffers of more than one row.
C3_Witness ==
    /\ IsFeedForward /\ layer.handler # PyNone
    /\ ActName \in {"sigmoid", "tanh", "rel"}
    /\ Len(backward_calls) = 2
    /\ Len(input_buffer) * Len(input_buffer[1]) > 1
    /\ backward_calls[1].out_delta_buffer # backward_calls[2].out_delta_buffer
    /\ \A n \in 1..2 :
          ~IsZero3(InDeltaContribution(ExpectedDZ(ActName, backward_calls[n]),
                                       parameters.W))
    /\ ~IsZero3(in_delta_initial)
    /\ gradient_buffer.W # WeightGradient(input_buffer,
                               ExpectedDZ(ActName, backward_calls[1]))


\* C4 (as claimed; the code fails it): a NoOpLayer construction with empty
\* kwargs succeeds exactly when the derived out_size (size when given, in_size
\* otherwise) equals in_size, and a constructed NoOpLayer has
\* out_size = in_size.
C4_NoOpConstructsIffOutEqualsIn ==
    /\ (result.op = "construct" /\ result.args.cls = "NoOpLayer"
           /\ result.args.kwargs = <<>>)
       => LET derived == IF result.args.size # PyNone
                         THEN result.args.size
                         ELSE result.args.in_size
          IN  /\ (result.status = "ok") <=> (derived = result.args.in_size)
              /\ result.status = "ok" =>
                     layer # PyNone /\ layer.out_size = derived
    /\ (layer # PyNone /\ layer.cls = "NoOpLayer")
       => layer.out_size = layer.in_size

\* C5: an InputLayer construction with empty kwargs fails when in_size is
\* neither None nor zero and succeeds otherwise, with out_size the explicit
\* size when one is given; an InputLayer that exists has in_size None or zero.
C5_InputLayerHasNoInSize ==
    /\ (result.op = "construct" /\ result.args.cls = "InputLayer"
           /\ result.args.kwargs = <<>>)
       => IF result.args.in_size \in {PyNone, PyInt(0)}
          THEN /\ result.status = "ok"
               /\ layer # PyNone
               /\ layer.cls = "InputLayer"
               /\ result.args.size # PyNone => layer.out_size = result.args.size
          ELSE /\ result.status = "error"
               /\ result.error.type = "AssertionError"
               /\ layer = PyNone
    /\ (layer # PyNone /\ layer.cls = "InputLayer")
       => layer.in_size \in {PyNone, PyInt(0)}

\* C5 witness: an InputLayer constructed with in_size zero and an explicit size.
C5_Witness ==
    /\ result.op = "construct" /\ result.status = "ok"
    /\ result.args.cls = "InputLayer" /\ result.args.kwargs = <<>>
    /\ result.args.in_size = PyInt(0) /\ result.args.size = PyInt(2)
    /\ layer # PyNone /\ layer.out_size = PyInt(2)

\* The kwargs keys a layer class allows.
AllowedKeys(cls) == IF cls = "FeedForwardLayer" THEN {"act_func"} ELSE {}

IsKwargsError(step) ==
    /\ step.status = "error"
    /\ step.error.type = "AssertionError"
    /\ step.error.msg \in {"Unexpected kwargs",
                           "Unexpected kwarg for FeedForwardLayer"}

\* C6: a construction whose kwargs hold a key outside the class's allowed set
\* fails with an error that names such a key, whatever size and in_size are;
\* kwargs with allowed keys only never raise that error.
C6_UnknownKwargIsRejected ==
    result.op = "construct"
    => LET offending ==
               {result.args.kwargs[i][1] : i \in 1..Len(result.args.kwargs)}
                   \ AllowedKeys(result.args.cls)
       IN  IF offending # {}
           THEN /\ IsKwargsError(result)
                /\ \E n \in 1..Len(result.error.names) :
                       result.error.names[n] \in offending
                /\ layer = PyNone
           ELSE ~IsKwargsError(result)

\* C6 witness: a FeedForwardLayer construction, otherwise valid, whose kwargs
\* hold the allowed key first and an unknown key second.
C6_Witness ==
    /\ result.op = "construct" /\ result.args.cls = "FeedForwardLayer"
    /\ result.args.size = PyInt(2) /\ result.args.in_size = PyInt(1)
    /\ Len(result.args.kwargs) = 2
    /\ result.args.kwargs[1] = <<"act_func", "tanh">>
    /\ result.args.kwargs[2][1] = "dropout"
    /\ IsKwargsError(result) /\ result.error.names = <<"dropout">>

\* C7 (as claimed; the code fails it): a FeedForwardLayer is either unbound,
\* with no handler and no activation pair, or bound to the handler of the last
\* set_handler call with the pair the activation table gives for that handler
\* and the configured name.
C7_BoundLayerHasItsActivationPair ==
    IsFeedForward
    => /\ \/ /\ layer.handler = PyNone
             /\ layer.act_func = PyNone
             /\ layer.act_func_deriv = PyNone
          \/ /\ layer.handler \in Handlers
             /\ ActName \in DOMAIN activation_functions(layer.handler)
             /\ <<layer.act_func, layer.act_func_deriv>> =
                    activation_functions(layer.handler)[ActName]
       /\ result.op = "set_handler" =>
              layer.handler = result.args.new_handler

\* C8 (as claimed; the code fails it): no FeedForwardLayer exists whose
\* act_func is a name the activation table lacks, and set_handler on a
\* FeedForwardLayer does not fail.
C8_UnknownActivationRejectedAtConstruction ==
    IsFeedForward
    => /\ ActName \in {"sigmoid", "tanh", "linear", "rel"}
       /\ result.op = "set_handler" => result.status = "ok"

C10_LookupReturnsNamedConcreteClass ==
    result.op = "get_layer_class_from_typename"
    => /\ IF result.args.typename \in
               {"InputLayer", "NoOpLayer", "FeedForwardLayer"}
          THEN /\ result.status = "ok"
               /\ result.value.name = result.args.typename
          ELSE /\ result.status = "error"
               /\ result.error = TypeError("Layer-type unknown",
                                           <<result.args.typename>>)
               /\ result.value = PyNone
       /\ result.status = "ok" => result.value.name # "LayerBase"

\* C10 witness: the lookup of 'LayerBase' has failed.
C10_Witness ==
    /\ result.op = "get_layer_class_from_typename"
    /\ result.args.typename = "LayerBase"
    /\ result.status = "error"

=============================================================================
